---- MODULE Spec2Model ----
(***************************************************************************)
(* State-machine model of the WhiskyPay SDK: the payment verification      *)
(* gateway (verifyPayment / storeVerifiedSignature), the checkout          *)
(* orchestrator (PaymentModalComponent.handlePayment) and the session      *)
(* gateway (fetchSession / createSession).                                 *)
(*                                                                         *)
(* Strings the code inspects character by character (the signature that    *)
(* is trimmed) are sequences of one-character strings.  The page text      *)
(* (document.body.innerText) is represented by the set of marker phrases   *)
(* that occur in it, so  pageText.includes(p)  is  p \in pageText.         *)
(* window.sessionStorage is present and holds, under the key               *)
(* 'verified_signatures', the JSON array the code itself wrote.            *)
(***************************************************************************)
EXTENDS Integers, Sequences, FiniteSets, TLC

VARIABLES
    verified_signatures,  \* sessionStorage['verified_signatures'] as a sequence
    pageText,             \* marker phrases present in document.body.innerText
    call,                 \* the verifyPayment call made directly by an SDK user
    okBefore,             \* history: arguments for which an earlier direct call returned success
    mounted,              \* PaymentModalComponent is mounted
    paymentCompleted,     \* window.paymentCompleted: "false", "true" or "undefined"
    loading,              \* the loading state of the component
    shown,                \* the value of loading in the last committed render
    att,                  \* the handlePayment invocations of the component
    req,                  \* the fetchSession or createSession call of an SDK user
    backoff,              \* the backoff delays of a call whose attempts all fail
    san                   \* a string passed through sanitizeInput

verifyVars == <<call, okBefore>>
payVars == <<mounted, paymentCompleted, loading, shown, att>>
sessionVars == <<req, backoff, san>>
vars == <<verified_signatures, pageText, call, okBefore,
          mounted, paymentCompleted, loading, shown, att, req, backoff, san>>

----------------------------------------------------------------------------
(* Bounds *)

\* largest maxRetries argument passed to a direct verifyPayment call
MaxRetriesArg == 2

\* number of handlePayment invocations followed on one component instance
MaxInvocations == 2

\* largest maxRetries of a call whose backoff delays are followed
MaxBackoffRetries == 6

\* longest string passed through sanitizeInput
MaxInputLen == 4

----------------------------------------------------------------------------
(* Inputs *)

\* signatures passed by direct callers: raw strings, some with surrounding blanks
Signatures == { <<"a">>, <<" ", "a", " ">>, <<"b">> }

\* argument triples (sessionId, signature, userPubKey) of direct calls: every
\* signature with the other two present, the blank-padded one for a second
\* session and submitter, and one triple per missing field
CallArgs == { << (IF sig = <<"a">> \/ sig = <<"b">> THEN "sess1" ELSE "sess2"), sig,
                 (IF sig = <<"a">> \/ sig = <<"b">> THEN "pk1" ELSE "pk2") >> : sig \in Signatures }
            \cup { <<"", <<"a">>, "pk1">>, <<"sess1", <<>>, "pk1">>, <<"sess1", <<"a">>, "">> }

\* message field of a JSON body sent by the backend
ServerMessage == "server-supplied message"

\* what one fetch() can produce: a response (status, body kind), a transport
\* failure (TypeError), or no response before the 30 s AbortController fires
Statuses == { 200, 400, 403, 404, 409, 429, 500 }
Bodies == { "msg", "nomsg", "bad", "null" }
Responses == [kind : {"resp"}, status : Statuses, body : Bodies]
NetErr == [kind |-> "neterr", status |-> 0, body |-> "bad"]
Timeout == [kind |-> "timeout", status |-> 0, body |-> "bad"]
Outcomes == Responses \cup {NetErr, Timeout}

\* page texts the environment can show
PageTexts == { {}, {"Reconnecting to Redis"}, {"Transaction verification successful"},
               {"Signature already used"} }

----------------------------------------------------------------------------
(* verifyPayment: helpers *)

\* the white space String.prototype.trim removes, as far as the inputs use it
IsSpace(c) == c \in {" ", "\t", "\n"}

RECURSIVE TrimLeft(_)
TrimLeft(s) == IF s # <<>> /\ IsSpace(Head(s)) THEN TrimLeft(Tail(s)) ELSE s

RECURSIVE TrimRight(_)
TrimRight(s) == IF s # <<>> /\ IsSpace(s[Len(s)]) THEN TrimRight(SubSeq(s, 1, Len(s) - 1)) ELSE s

\* String.prototype.trim
trim(s) == TrimRight(TrimLeft(s))

Range(f) == { f[i] : i \in DOMAIN f }

\* an includes that finds nothing
includesNever(signatures, x) == FALSE

\* signatures.includes(x)
includes(signatures, x) == x \in Range(signatures)

\* storeVerifiedSignature without the write-back (setItem left out)
storeVerifiedSignatureNoWrite(store, signature) == store

\* storeVerifiedSignature: push unless already present
storeVerifiedSignature(store, signature) ==
    IF includes(store, signature) THEN store ELSE Append(store, signature)

\* the marker lists of the four page-text scans of verifyPayment; a phrase
\* that contains another phrase of the same list is subsumed by it
NoInitialMarkers == { }

InitialMarkers == { "Transaction verification successful", "Signature already used",
                    "Connected to Redis successfully", "Payment verified",
                    "Found transfer instruction:" }
CatchMarkers == { "Connected to Redis successfully", "Reconnecting to Redis" }
NotOkMarkers == { "Transaction verification successful", "Connected to Redis successfully",
                  "Reconnecting to Redis" }

hasMarker(page, markers) == page \cap markers # {}

MsgMissing == "Missing required fields"
MsgAlready == "Payment already verified"
MsgAppearsVerified == "Payment appears to be verified successfully"
MsgAppearsProcessed == "Payment appears to be processed successfully"
MsgInvalidRequest == "Invalid request parameters"
MsgNotFound == "Session not found"
MsgFailed == "Payment verification failed"
MsgVerified == "Payment verified successfully"
MsgMayHave == "Payment may have been processed. Please check your account dashboard to verify."
MsgError == "Error verifying payment"
MsgExhausted == "Failed to verify payment after multiple attempts. The payment may still have been processed. Check your account dashboard."
MsgUnparsed == "Unknown error (could not parse response)"

NoResult == [success |-> FALSE, message |-> ""]
NoOutcome == [kind |-> "none", status |-> 0, body |-> "bad"]

IdleCall == [pc |-> "idle", sessionId |-> "", signature |-> <<>>, userPubKey |-> "",
             maxRetries |-> 0, trimmedSignature |-> <<>>, attempts |-> 0,
             aborted |-> FALSE, requests |-> 0, nonTimeout |-> FALSE, last |-> NoOutcome,
             fallbacks |-> 0, primary |-> "none",
             path |-> "none", result |-> NoResult]

\* return { success, message } by the path named
Return(vp, success, message, path) ==
    [vp EXCEPT !.pc = "done", !.path = path,
               !.result = [success |-> success, message |-> message]]

\* a return that is preceded by storeVerifiedSignature(trimmedSignature)
StoreAndReturn(vp, store, message, path) ==
    [vp |-> Return(vp, TRUE, message, path),
     store |-> storeVerifiedSignature(store, vp.trimmedSignature)]

\* a failure return that records the signature all the same
KeepOrStoreOnFailure(vp, store) ==
    [vp |-> vp,
     store |-> IF vp.pc = "done" /\ ~vp.result.success
               THEN storeVerifiedSignature(store, vp.trimmedSignature)
               ELSE store]

Keep(vp, store) == [vp |-> vp, store |-> store]

\* attempts++ followed by  if (attempts < maxRetries) { backoff; continue }
\* otherwise the alternative given
RetryOr(vp, store, otherwise) ==
    IF vp.attempts + 1 < vp.maxRetries
    THEN Keep([vp EXCEPT !.attempts = @ + 1, !.pc = "backoff"], store)
    ELSE otherwise

\* the catch of the outer try (lines 260-311): AbortError or any other error
OuterCatch(vp, store, page, isAbort) ==
    IF isAbort
    THEN RetryOr(vp, store,
            Keep(Return([vp EXCEPT !.attempts = @ + 1], TRUE, MsgMayHave, "timeout"), store))
    ELSE IF hasMarker(page, CatchMarkers)
         THEN StoreAndReturn(vp, store, MsgAppearsProcessed, "marker")
         ELSE RetryOr(vp, store,
                 Keep(Return([vp EXCEPT !.attempts = @ + 1], FALSE, MsgError, "error"), store))

\* the catch of the inner try (lines 128-174) up to the fallback fetch it issues
InnerCatch(vp, store, page, isAbort) ==
    IF hasMarker(page, CatchMarkers)
    THEN StoreAndReturn(vp, store, MsgAppearsProcessed, "marker")
    ELSE Keep([vp EXCEPT !.pc = "fallbackCatch", !.aborted = isAbort], store)

\* errorData.message of a non-2xx response
errorMessage(body, default) ==
    CASE body = "msg" -> ServerMessage
      [] body = "bad" -> MsgUnparsed
      [] OTHER -> default

\* lines 176-258: what follows once a response res is at hand
HandleResponse(vp, store, page, res) ==
    IF res.status = 409
    THEN StoreAndReturn(vp, store, MsgAlready, "409")
    ELSE IF res.status \notin 200..299
    THEN IF res.body = "null"
         THEN OuterCatch(vp, store, page, FALSE)   \* errorData.message on null throws
         ELSE IF res.status = 400
         THEN Keep(Return(vp, FALSE, errorMessage(res.body, MsgInvalidRequest), "400"), store)
         ELSE IF res.status = 404
         THEN Keep(Return(vp, FALSE, errorMessage(res.body, MsgNotFound), "404"), store)
         ELSE LET retriable == res.status >= 500 \/ res.status = 429
                  counted == IF retriable THEN [vp EXCEPT !.attempts = @ + 1] ELSE vp
              IN IF retriable /\ vp.attempts + 1 < vp.maxRetries
                 THEN Keep([counted EXCEPT !.pc = "backoff"], store)
                 ELSE IF hasMarker(page, NotOkMarkers)
                      THEN StoreAndReturn(counted, store, MsgAppearsProcessed, "marker")
                      ELSE Keep(Return(counted, FALSE, errorMessage(res.body, MsgFailed), "notok"), store)
    ELSE StoreAndReturn(vp, store,
                        IF res.body = "msg" THEN ServerMessage ELSE MsgVerified, "2xx")

\* bookkeeping of one HTTP request and of what came back: the number of
\* requests sent, whether anything but a timeout was ever observed, the
\* outcome of the last request, the fallback requests of the current attempt
\* and how the primary request of the current attempt ended
Sent(vp, o) ==
    [vp EXCEPT !.requests = @ + 1,
               !.nonTimeout = @ \/ o.kind # "timeout",
               !.last = o,
               !.fallbacks = IF vp.pc = "primary" THEN 0 ELSE @ + 1,
               !.primary = IF vp.pc # "primary" THEN @
                           ELSE IF o.kind # "resp" THEN "failed"
                           ELSE IF o.status = 404 THEN "404" ELSE "answered"]

\* one fetch() awaited inside the inner try: the primary request (line 81)
\* or the fallback request that follows a 404 (line 108)
TryFetch(vp, store, page, o, isPrimary) ==
    LET sent == Sent(vp, o) IN
    CASE o.kind = "resp" ->
            IF isPrimary /\ o.status = 404
            THEN Keep([sent EXCEPT !.pc = "fallback404"], store)
            ELSE HandleResponse(sent, store, page, o)
      [] o.kind = "neterr" -> InnerCatch(sent, store, page, FALSE)
      [] OTHER -> InnerCatch(sent, store, page, TRUE)

\* the fetch() of the inner catch (line 155); with the signal already
\* aborted it rejects at once and no request is sent
CatchFetch(vp, store, page, o) ==
    IF vp.aborted
    THEN OuterCatch(vp, store, page, TRUE)
    ELSE LET sent == Sent(vp, o) IN
         CASE o.kind = "resp" -> HandleResponse(sent, store, page, o)
           [] o.kind = "neterr" -> OuterCatch(sent, store, page, FALSE)
           [] OTHER -> OuterCatch(sent, store, page, TRUE)

\* verifyPayment from its entry to its first await (lines 8-81)
verifyPayment(store, page, sessionId, signature, userPubKey, maxRetries) ==
    LET vp == [IdleCall EXCEPT !.sessionId = sessionId, !.signature = signature,
                               !.userPubKey = userPubKey, !.maxRetries = maxRetries,
                               !.trimmedSignature = trim(signature)]
    IN IF sessionId = "" \/ signature = <<>> \/ userPubKey = ""
       THEN Keep(Return(vp, FALSE, MsgMissing, "invalid"), store)
       ELSE IF includes(store, vp.trimmedSignature)
       THEN Keep(Return(vp, TRUE, MsgAlready, "cache"), store)
       ELSE IF hasMarker(page, InitialMarkers)
       THEN StoreAndReturn(vp, store, MsgAppearsVerified, "marker")
       ELSE IF 0 < maxRetries
       THEN Keep([vp EXCEPT !.pc = "primary"], store)
       ELSE Keep(Return(vp, FALSE, MsgExhausted, "exhausted"), store)

\* the step of a running call that consumes fetch outcome o
VerifyStep(vp, store, page, o) ==
    CASE vp.pc = "primary" -> TryFetch(vp, store, page, o, TRUE)
      [] vp.pc = "fallback404" -> TryFetch(vp, store, page, o, FALSE)
      [] vp.pc = "fallbackCatch" -> CatchFetch(vp, store, page, o)
      [] OTHER -> Keep(vp, store)

\* the backoff delay has elapsed: next iteration of the while loop
BackoffElapsed(vp) == [vp EXCEPT !.pc = "primary", !.aborted = FALSE]

\* outcomes the pending fetch of vp can have
Pending(vp) == IF vp.pc = "fallbackCatch" /\ vp.aborted THEN {Timeout} ELSE Outcomes

----------------------------------------------------------------------------
(* verifyPayment as awaited by handlePayment *)

\* default of the maxRetries parameter of verifyPayment (handlePayment passes none)
DefaultMaxRetries == 3

\* what the retry loop of a verifyPayment call in flight goes on from: the
\* await it is suspended at, the attempts counted and whether the abort
\* signal of the current attempt has fired
NoAwaited == [pc |-> "none", attempts |-> 0, aborted |-> FALSE]

Awaiting(vp) ==
    IF vp.pc = "done" THEN NoAwaited
    ELSE [pc |-> vp.pc, attempts |-> vp.attempts,
          aborted |-> vp.pc = "fallbackCatch" /\ vp.aborted]

----------------------------------------------------------------------------
(* PaymentModalComponent.handlePayment *)

Invocations == 1..MaxInvocations

\* a verification loop of four rounds
LoopMaxRetriesFour == 3 + 1

\* const maxRetries = 3 of the verification loop of handlePayment
LoopMaxRetries == 3

\* selectedToken at the click: native SOL, USDC, or a token that is swapped
Tokens == { "SOL", "USDC", "SWAP" }

\* the signature the ledger returns for the transaction of invocation i
SigOf(i) == << ToString(i) >>

\* the page-text scan of handlePayment (lines 293-297)
RedisMarkers == { "Connected to Redis successfully", "Reconnecting to Redis",
                  "Transaction verification successful" }

IdleAttempt == [pc |-> "idle", token |-> "SOL", timer |-> "none", forced |-> "none",
                redirect |-> "none", outcome |-> "none", retryCount |-> 0,
                dispatches |-> 0, verifyCalls |-> 0, confirm |-> "none",
                sent |-> FALSE, nonTimeout |-> FALSE,
                clientError |-> FALSE, resent |-> FALSE, ledger |-> "none",
                publicKey |-> FALSE, signTransaction |-> FALSE,
                price |-> "none", precheck |-> "none", vp |-> NoAwaited]

Running(a) == a.pc \notin {"idle", "ended"}

\* number of onRedirect calls made on behalf of an invocation
RedirectCalls(a) == (IF a.forced = "done" THEN 1 ELSE 0) + (IF a.redirect = "done" THEN 1 ELSE 0)

\* the finally block: setLoading(false), clearTimeout(safetyTimeoutId)
Finally(a) == [a EXCEPT !.pc = "ended", !.timer = IF @ = "armed" THEN "cleared" ELSE @]

\* the catch block followed by finally, and the return after a failed verification
\* a catch block that sends the transaction again when confirmation fails
FailedOrSentAgain(a) ==
    IF a.pc = "confirm" /\ a.dispatches = 1
    THEN [a EXCEPT !.pc = "send"]
    ELSE Finally([a EXCEPT !.outcome = "failure"])

Failed(a) == Finally([a EXCEPT !.outcome = "failure"])

\* setTimeout(() => onRedirect(), 3000); return, followed by finally
Succeeded(a) == Finally([a EXCEPT !.outcome = "success", !.redirect = "pending"])

Fail(i, a) ==
    /\ att' = [att EXCEPT ![i] = Failed(a)]
    /\ loading' = FALSE
    /\ UNCHANGED <<sessionVars, verifyVars, verified_signatures, pageText, mounted, paymentCompleted, shown>>

Continue(i, a) ==
    /\ att' = [att EXCEPT ![i] = a]
    /\ UNCHANGED <<sessionVars, verifyVars, verified_signatures, pageText, mounted, paymentCompleted, loading, shown>>

\* a wallet check that looks at the public key only
walletMissingKeyOnly(publicKey, signTransaction) == ~publicKey

\* if (!publicKey || !signTransaction)
walletMissing(publicKey, signTransaction) == ~publicKey \/ ~signTransaction

\* the click on "Subscribe Now": handlePayment up to its first await.  The
\* button that carries the handler exists only in a render with loading false.
\* publicKey and signTransaction tell whether the wallet adapter provides them.
ClickWith(i, selectable) ==
    /\ mounted /\ ~shown
    /\ att[i].pc = "idle"
    /\ \A j \in Invocations : j < i => att[j].pc # "idle"
    /\ \E publicKey \in BOOLEAN, signTransaction \in BOOLEAN,
          addressOk \in BOOLEAN, token \in selectable :
          LET a == [att[i] EXCEPT !.token = token, !.publicKey = publicKey,
                                  !.signTransaction = signTransaction] IN
          IF walletMissing(publicKey, signTransaction)
          THEN \* if (!publicKey || !signTransaction) { toast; return }
               /\ att' = [att EXCEPT ![i] = [a EXCEPT !.pc = "ended", !.outcome = "failure"]]
               /\ UNCHANGED loading
          ELSE IF ~addressOk
          THEN \* new PublicKey(merchantWalletAddress) throws: catch, finally
               /\ att' = [att EXCEPT ![i] = Failed([a EXCEPT !.timer = "armed"])]
               /\ loading' = FALSE
          ELSE /\ att' = [att EXCEPT ![i] = [a EXCEPT !.pc = "price", !.timer = "armed"]]
               /\ loading' = TRUE
    /\ UNCHANGED <<sessionVars, verifyVars, verified_signatures, pageText, mounted, paymentCompleted, shown>>

Click(i) == ClickWith(i, Tokens)

\* React commits a render with the current state
Render ==
    /\ mounted /\ shown # loading
    /\ shown' = loading
    /\ UNCHANGED <<sessionVars, verifyVars, verified_signatures, pageText, mounted, paymentCompleted, loading, att>>

\* the component unmounts: the effect cleanup deletes window.paymentCompleted
Unmount ==
    /\ mounted
    /\ mounted' = FALSE
    /\ paymentCompleted' = "undefined"
    /\ UNCHANGED <<sessionVars, verifyVars, verified_signatures, pageText, loading, shown, att>>

\* the price request settles (lines 200-208)
PriceSettles(i) ==
    /\ att[i].pc = "price"
    /\ \E r \in {"ok", "bad", "throw"}, addresses \in {"derived", "throw"} :
          LET a == [att[i] EXCEPT !.price = r] IN
          IF r = "throw"
          THEN Fail(i, a)
          ELSE IF a.token = "SOL"
          THEN \* lamports: Math.round(solAmount * LAMPORTS_PER_SOL); with a zero or
               \* missing price the amount is Infinity or NaN, which the
               \* transaction library either rejects or encodes
               \/ Continue(i, [a EXCEPT !.pc = "send"])
               \/ r = "bad" /\ Fail(i, a)
          ELSE IF addresses = "throw"
          THEN \* USDC path: await getAssociatedTokenAddress(...) twice (lines
               \* 343-344); swap path: the same and new PublicKey(tokenMintAddress)
               \* (lines 481-496); none of them waits for the network
               Fail(i, a)
          ELSE IF a.token = "USDC"
          THEN Continue(i, [a EXCEPT !.pc = "send"])
          ELSE Continue(i, [a EXCEPT !.pc = "accountInfo"])

\* swap path: connection.getAccountInfo(senderTokenAccount) settles
AccountInfoSettles(i) ==
    /\ att[i].pc = "accountInfo"
    /\ \E r \in {"exists", "absent", "throw"} :
          LET a == [att[i] EXCEPT !.precheck = r] IN
          IF r = "exists" THEN Continue(i, [a EXCEPT !.pc = "balance"])
          ELSE Fail(i, a)

\* a balance check that lets every balance through
insufficientNever(uiAmount) == FALSE

\* !tokenBalance.value.uiAmount || tokenBalance.value.uiAmount === 0
insufficient(uiAmount) == uiAmount \in {"zero", "null"}

\* swap path: connection.getTokenAccountBalance(senderTokenAccount) settles
BalanceSettles(i) ==
    /\ att[i].pc = "balance"
    /\ \E r \in {"positive", "zero", "null", "throw"} :
          LET a == [att[i] EXCEPT !.precheck = r] IN
          IF r = "throw" \/ insufficient(r) THEN Fail(i, a)
          ELSE Continue(i, [a EXCEPT !.pc = "quote"])

\* swap path: the quote request settles
QuoteSettles(i) ==
    /\ att[i].pc = "quote"
    /\ \E r \in {"route", "noroute", "throw"} :
          IF r = "route" THEN Continue(i, [att[i] EXCEPT !.pc = "swap"])
          ELSE Fail(i, att[i])

\* swap path: the swap-build request settles and the transaction is deserialized
SwapSettles(i) ==
    /\ att[i].pc = "swap"
    /\ \E r \in {"transaction", "none", "throw"} :
          IF r = "transaction" THEN Continue(i, [att[i] EXCEPT !.pc = "sign"])
          ELSE Fail(i, att[i])

\* swap path: signTransaction settles
SignSettles(i) ==
    /\ att[i].pc = "sign"
    /\ \E r \in {"signed", "throw"} :
          IF r = "signed" THEN Continue(i, [att[i] EXCEPT !.pc = "send"])
          ELSE Fail(i, att[i])

\* sendTransaction / sendRawTransaction settles
SendSettles(i) ==
    /\ att[i].pc = "send"
    /\ \E r \in {"signature", "throw"} :
          LET a == [att[i] EXCEPT !.dispatches = @ + 1] IN
          IF r = "throw" THEN Fail(i, a)
          ELSE Continue(i, [a EXCEPT !.pc = IF a.token = "SWAP" THEN "confirm" ELSE "blockhash"])

\* SOL and USDC paths: connection.getLatestBlockhash settles
BlockhashSettles(i) ==
    /\ att[i].pc = "blockhash"
    /\ \E r \in {"ok", "throw"} :
          IF r = "ok" THEN Continue(i, [att[i] EXCEPT !.pc = "confirm"])
          ELSE Fail(i, att[i])

\* the call of verifyPayment in the verification loop
CallVerify(a) == [a EXCEPT !.pc = "verify", !.verifyCalls = @ + 1]

\* the call record of the verifyPayment call that invocation i awaits,
\* suspended at w
AwaitedCall(i, w) ==
    [IdleCall EXCEPT !.pc = w.pc, !.sessionId = "sess1", !.signature = SigOf(i),
                     !.userPubKey = "pk1", !.maxRetries = DefaultMaxRetries,
                     !.trimmedSignature = trim(SigOf(i)),
                     !.attempts = w.attempts, !.aborted = w.aborted]

\* handlePayment after verifyPayment ran up to its next await or its return,
\* r being the call and the storage it leaves.  On a return the while loop
\* goes on: success toast, flag, redirect timer and return; or the 2 s pause;
\* or, after the third call, connection.getSignatureStatus(signature)
VerifyContinues(i, a, r) ==
    LET b == [a EXCEPT !.sent = @ \/ r.vp.requests > 0,
                       !.nonTimeout = @ \/ r.vp.nonTimeout,
                       !.clientError = @ \/ (r.vp.pc = "done" /\ r.vp.path \in {"400", "404"}),
                       !.resent = @ \/ (a.clientError /\ r.vp.requests > 0),
                       !.vp = Awaiting(r.vp)]
    IN /\ verified_signatures' = r.store
       /\ IF r.vp.pc # "done"
          THEN /\ att' = [att EXCEPT ![i] = b]
               /\ UNCHANGED <<paymentCompleted, loading>>
          ELSE IF r.vp.result.success
          THEN /\ att' = [att EXCEPT ![i] = Succeeded([b EXCEPT !.retryCount = @ + 1])]
               /\ paymentCompleted' = "true"
               /\ loading' = FALSE
          ELSE IF b.retryCount < LoopMaxRetries - 1
          THEN /\ att' = [att EXCEPT ![i] = [b EXCEPT !.pc = "pause"]]
               /\ UNCHANGED <<paymentCompleted, loading>>
          ELSE /\ att' = [att EXCEPT ![i] = [b EXCEPT !.retryCount = @ + 1, !.pc = "status"]]
               /\ UNCHANGED <<paymentCompleted, loading>>
       /\ UNCHANGED <<sessionVars, verifyVars, pageText, mounted, shown>>

\* verificationResponse = await verifyPayment(sessionId, signature, publicKey):
\* the call runs its storage check and page scan and issues its first request
StartVerify(i, a) ==
    VerifyContinues(i, CallVerify(a),
                    verifyPayment(verified_signatures, pageText, "sess1", SigOf(i), "pk1",
                                  DefaultMaxRetries))

\* connection.confirmTransaction(..., "finalized") settles: it throws, or it
\* resolves with value.err null ("ok") or set ("err"); only the swap path
\* looks at value.err
ConfirmSettles(i) ==
    /\ att[i].pc = "confirm"
    /\ \E r \in {"ok", "err", "throw"} :
          LET a == [att[i] EXCEPT !.confirm = r] IN
          IF r = "throw" \/ (r = "err" /\ a.token = "SWAP")
          THEN Fail(i, a)
          ELSE StartVerify(i, a)

\* a request of the awaited verifyPayment call settles in one of the ways the
\* backend at hand answers: the call goes on with the page text and the
\* storage of this moment
VerifyFetchSettlesWith(i, outcomes) ==
    /\ att[i].pc = "verify"
    /\ att[i].vp.pc \in {"primary", "fallback404", "fallbackCatch"}
    /\ LET vp == AwaitedCall(i, att[i].vp) IN
       \E o \in Pending(vp) \cap outcomes :
          VerifyContinues(i, att[i], VerifyStep(vp, verified_signatures, pageText, o))

VerifyFetchSettles(i) == VerifyFetchSettlesWith(i, Outcomes)

\* the backoff delay of the awaited verifyPayment call has elapsed
VerifyBackoffElapsed(i) ==
    /\ att[i].pc = "verify"
    /\ att[i].vp.pc = "backoff"
    /\ Continue(i, [att[i] EXCEPT !.vp = Awaiting(BackoffElapsed(AwaitedCall(i, att[i].vp)))])

\* the 2 s pause between two verification calls has elapsed
PauseElapsed(i) ==
    /\ att[i].pc = "pause"
    /\ StartVerify(i, [att[i] EXCEPT !.retryCount = @ + 1])

\* the ledger check that accepts only the strongest confirmation level
ledgerConfirmsFinalizedOnly(confirmationStatus) == confirmationStatus = "finalized"

\* txStatus.value?.confirmationStatus === 'finalized' || ... === 'confirmed'
ledgerConfirms(confirmationStatus) == confirmationStatus \in {"finalized", "confirmed"}

\* connection.getSignatureStatus settles (lines 270-320, and the same code at
\* 410-460 and 626-677); ledger records what it reported
StatusSettles(i) ==
    /\ att[i].pc = "status"
    /\ \E r \in {"finalized", "confirmed", "processed", "null", "throw"} :
          LET a == [att[i] EXCEPT !.ledger = r] IN
          IF r = "throw" THEN Fail(i, a)
          ELSE IF ledgerConfirms(r)
          THEN /\ att' = [att EXCEPT ![i] = Succeeded(a)]
               /\ paymentCompleted' = "true"
               /\ loading' = FALSE
               /\ UNCHANGED <<sessionVars, verifyVars, verified_signatures, pageText, mounted, shown>>
          ELSE IF hasMarker(pageText, RedisMarkers)
          THEN /\ att' = [att EXCEPT ![i] = Succeeded(a)]
               /\ loading' = FALSE
               /\ UNCHANGED <<sessionVars, verifyVars, verified_signatures, pageText, mounted, paymentCompleted, shown>>
          ELSE Fail(i, a)

\* a safety callback that never forces the redirect
SafetyTimerFiresQuietly(i) ==
    /\ att[i].timer = "armed"
    /\ att' = [att EXCEPT ![i] = [@ EXCEPT !.timer = "fired"]]
    /\ UNCHANGED <<sessionVars, verifyVars, verified_signatures, pageText, mounted, paymentCompleted, loading, shown>>

\* the 60 s safety timer of invocation i runs its callback (lines 177-194)
SafetyTimerFires(i) ==
    /\ att[i].timer = "armed"
    /\ att' = [att EXCEPT ![i] = [@ EXCEPT !.timer = "fired",
                                          !.forced = IF paymentCompleted = "true"
                                                     THEN "none" ELSE "pending"]]
    /\ UNCHANGED <<sessionVars, verifyVars, verified_signatures, pageText, mounted, paymentCompleted, loading, shown>>

\* the 2 s timer set by the safety callback runs: onRedirect()
ForcedRedirect(i) ==
    /\ att[i].forced = "pending"
    /\ att' = [att EXCEPT ![i] = [@ EXCEPT !.forced = "done"]]
    /\ UNCHANGED <<sessionVars, verifyVars, verified_signatures, pageText, mounted, paymentCompleted, loading, shown>>

\* the 3 s timer set on success runs: onRedirect()
SuccessRedirect(i) ==
    /\ att[i].redirect = "pending"
    /\ att' = [att EXCEPT ![i] = [@ EXCEPT !.redirect = "done"]]
    /\ UNCHANGED <<sessionVars, verifyVars, verified_signatures, pageText, mounted, paymentCompleted, loading, shown>>

----------------------------------------------------------------------------
(* fetchSession: JSON values and mapResponseToSessionType *)

\* JavaScript values that a parsed JSON document can hold under a key
Str(x) == [t |-> "string", s |-> x, n |-> 0]
Num(k) == [t |-> "number", s |-> "", n |-> k]
Undefined == [t |-> "undefined", s |-> "", n |-> 0]
Null == [t |-> "null", s |-> "", n |-> 0]

\* ToBoolean
truthy(v) ==
    CASE v.t = "string" -> v.s # ""
      [] v.t = "number" -> v.n # 0
      [] OTHER -> FALSE

\* a || b || ... || last
RECURSIVE OrChain(_)
OrChain(vs) == IF Len(vs) = 1 \/ truthy(Head(vs)) THEN Head(vs) ELSE OrChain(Tail(vs))

\* the keys tried for each field of SessionType, in the order of lines 25-36
Aliases ==
    [ _id     |-> << "_id", "id", "sessionId", "session_id" >>,
      saasId  |-> << "saasId", "saas_id", "merchantId", "merchant_id" >>,
      saasName |-> << "saasName", "saas_name", "merchantName", "merchant_name" >>,
      time    |-> << "time", "created_at", "createdAt", "timestamp" >>,
      email   |-> << "email", "customerEmail", "customer_email" >>,
      address |-> << "address", "walletAddress", "wallet_address", "merchantAddress",
                     "merchant_address" >>,
      logoUrl |-> << "logoUrl", "logo_url", "logo" >>,
      plan    |-> << "plan", "planName", "plan_name" >>,
      price   |-> << "price", "amount", "planPrice", "plan_price" >> ]

SessionFields == DOMAIN Aliases
requiredFields == { "_id", "saasId", "email", "address", "plan", "price" }
AllKeys == UNION { Range(Aliases[f]) : f \in SessionFields }

\* a JSON object as a function over every key the code reads; a key the
\* document does not have reads as undefined
Doc(members) == [k \in AllKeys |-> IF k \in DOMAIN members THEN members[k] ELSE Undefined]

\* data.a || data.b || ... || null
firstOf(data, keys) == OrChain([i \in 1..Len(keys) |-> data[keys[i]]] \o << Null >>)

\* typeof data.price === 'number' ? data.price : (typeof data.amount === ... : null)
RECURSIVE firstNumber(_, _)
firstNumber(data, keys) ==
    IF keys = << >> THEN Null
    ELSE IF data[Head(keys)].t = "number" THEN data[Head(keys)]
    ELSE firstNumber(data, Tail(keys))

\* lines 23-37: the record built before any check
mapped(data) ==
    [f \in SessionFields |->
        IF f = "price" THEN firstNumber(data, Aliases[f]) ELSE firstOf(data, Aliases[f])]

\* lines 59-72: defaults of the optional fields
withDefaults(session) ==
    [f \in SessionFields |->
        CASE f = "time" /\ ~truthy(session[f]) -> Str("now")
          [] f = "saasName" /\ ~truthy(session[f]) -> Str("Merchant")
          [] f = "logoUrl" /\ ~truthy(session[f]) -> Str("")
          [] OTHER -> session[f]]

NoSession == [f \in SessionFields |-> Undefined]

\* the value a call returns: null, a session (fetchSession) or a session id
\* (createSession)
ReturnNull == [kind |-> "null", session |-> NoSession, id |-> ""]
ReturnSession(session) == [kind |-> "session", session |-> session, id |-> ""]
ReturnId(id) == [kind |-> "id", session |-> NoSession, id |-> id]

\* mapResponseToSessionType without the checks of lines 41-57
mapResponseUnchecked(data) == ReturnSession(withDefaults(mapped(data)))

\* mapResponseToSessionType for a truthy data (an object)
mapResponseToSessionType(data) ==
    LET session == mapped(data) IN
    IF \E f \in requiredFields : session[f].t \in {"null", "undefined"}
    THEN ReturnNull
    ELSE IF session["price"].t # "number" \/ session["price"].n <= 0
    THEN ReturnNull
    ELSE ReturnSession(withDefaults(session))

----------------------------------------------------------------------------
(* fetchSession and createSession: inputs *)

\* session ids passed to fetchSession, as sequences of characters
SessionIds == { << >>,
                << "a", "b", "c", "1", "2", "3" >>,
                << "A", "-", "_", "9" >>,
                << "a", "/", "b" >>,
                << "a", " " >>,
                << "<", "a", ">" >>,
                << "a", ".", "b" >>,
                << "a", "?", "x", "=", "1" >> }

Lower == { "a", "b", "c", "e", "i", "l", "m", "n", "o", "p", "r", "t", "x" }
Upper == { "A", "Z" }
Digit == { "1", "2", "3", "9" }

M1 == << "m", "1" >>
Pro == << "p", "r", "o" >>
GoodEmail == << "e", "@", "x", ".", "c", "o", "m" >>

\* emails passed to createSession
Emails == { GoodEmail,
            << "A", "+", "1", "@", "x", "-", "a", ".", "c", "o" >>,
            << "n", "o", "t", "-", "a", "n", "-", "e", "m", "a", "i", "l" >>,
            << >>,
            << "e", "@", "x" >>,
            << "e", "@", "x", ".", "c" >>,
            << "e", "@", "x", ".", "c", "1" >>,
            << "@", "x", ".", "c", "o" >>,
            << "e", "@", ".", "c", "o" >>,
            << "e", "@", "@", "x", ".", "c", "o" >>,
            << " ", "e", "@", "x", ".", "c", "o" >>,
            << "e", "@", "x", ".", "c", "o", " " >>,
            << "<", "e", "@", "x", ".", "c", "o" >> }

\* argument triples (saasId, email, plan) of createSession: every email with
\* the other two plain, and merchant ids and plans that are empty, blank or
\* carry markup
CreateArgs == { << M1, e, Pro >> : e \in Emails }
              \cup { << << >>, GoodEmail, Pro >>,
                     << M1, GoodEmail, << >> >>,
                     << << " " >>, GoodEmail, Pro >>,
                     << << " ", "m", "1", " " >>, GoodEmail, << "<", "b", ">", "p", "r", "o" >> >> }

\* JSON documents the backend can answer a session fetch with (status 200)
DocCanonical ==
    Doc([ _id |-> Str("abc123"), saasId |-> Str("m1"), saasName |-> Str("Shop"),
          time |-> Str("t0"), email |-> Str("e@x.com"), address |-> Str("M"),
          logoUrl |-> Str("logo.png"), plan |-> Str("pro"), price |-> Num(10) ])
DocAliased ==
    Doc([ session_id |-> Str("abc123"), merchantId |-> Str("m1"),
          customerEmail |-> Str("e@x.com"), merchantAddress |-> Str("M"),
          planName |-> Str("pro"), plan_price |-> Num(10) ])

\* DocCanonical with one member replaced
With(key, value) == [DocCanonical EXCEPT ![key] = value]

\* the documents by name; "no <field>" is DocCanonical without that member
SessionDocs ==
    [ canonical |-> DocCanonical,
      aliased |-> DocAliased,
      no_id |-> With("_id", Undefined),
      no_saasId |-> With("saasId", Undefined),
      no_email |-> With("email", Undefined),
      no_address |-> With("address", Undefined),
      no_plan |-> With("plan", Undefined),
      no_price |-> With("price", Undefined),
      no_saasName |-> With("saasName", Undefined),
      price_zero |-> With("price", Num(0)),
      price_negative |-> With("price", Num(0 - 5)),
      price_string |-> With("price", Str("10")),
      price_null |-> With("price", Null),
      email_empty |-> With("email", Str("")),
      address_null |-> With("address", Null),
      time_empty |-> With("time", Str("")),
      id_under_alias |-> [With("_id", Str("")) EXCEPT !["id"] = Str("abc123")],
      price_zero_amount_set |-> [With("price", Num(0)) EXCEPT !["amount"] = Num(10)],
      price_string_amount_set |-> [With("price", Str("10")) EXCEPT !["amount"] = Num(10)],
      price_only |-> Doc([ price |-> Num(10) ]),
      none |-> Doc([ price |-> Undefined ]) ]

\* what one fetch() of fetchSession or createSession can produce.  json is
\* what res.json() gives: an object, the value null, or a rejection ("bad");
\* doc names the object among SessionDocs (fetchSession) and id is its
\* sessionId member (createSession)
NoDoc == "none"
SessionStatuses == { 200, 400, 404, 429, 500 }
Resp(status, json, doc, id) ==
    [kind |-> "resp", status |-> status, json |-> json, doc |-> doc, id |-> id]
SessionNetErr == [kind |-> "neterr", status |-> 0, json |-> "bad", doc |-> NoDoc, id |-> ""]
SessionTimeout == [kind |-> "timeout", status |-> 0, json |-> "bad", doc |-> NoDoc, id |-> ""]
NoSessionOutcome == [kind |-> "none", status |-> 0, json |-> "bad", doc |-> NoDoc, id |-> ""]

FetchOutcomes ==
    { Resp(200, "object", d, "") : d \in DOMAIN SessionDocs \ {NoDoc} }
    \cup { Resp(200, j, NoDoc, "") : j \in {"null", "bad"} }
    \cup { Resp(st, "object", NoDoc, "") : st \in SessionStatuses \ {200} }
    \cup { SessionNetErr, SessionTimeout }

CreateOutcomes ==
    { Resp(st, "object", NoDoc, id) : st \in SessionStatuses, id \in {"sess1", ""} }
    \cup { Resp(st, j, NoDoc, "") : st \in SessionStatuses, j \in {"null", "bad"} }
    \cup { SessionNetErr, SessionTimeout }

----------------------------------------------------------------------------
(* fetchSession and createSession: validation and sanitization *)

Letters == Lower \cup Upper
AlphaNum == Letters \cup Digit

\* [a-zA-Z0-9-_]
IdChars == AlphaNum \cup { "-", "_" }

\* sessionId.replace(...) that removes nothing
sanitizedSessionIdKeepAll(sessionId) == sessionId

\* sessionId.replace(/[^a-zA-Z0-9-_]/g, '')
sanitizedSessionId(sessionId) == SelectSeq(sessionId, LAMBDA c : c \in IdChars)

\* /^[a-zA-Z0-9._%+-]+@[a-zA-Z0-9.-]+\.[a-zA-Z]{2,}$/.test(email): at marks
\* the "@" and dot the "." that precedes the top-level label
LocalChars == AlphaNum \cup { ".", "_", "%", "+", "-" }
DomainChars == AlphaNum \cup { ".", "-" }

\* validateEmail that accepts every string
validateEmailAcceptAll(email) == TRUE

validateEmail(email) ==
    \E at \in 2..Len(email), dot \in 1..Len(email) :
        /\ email[at] = "@"
        /\ \A k \in 1..(at - 1) : email[k] \in LocalChars
        /\ dot >= at + 2
        /\ \A k \in (at + 1)..(dot - 1) : email[k] \in DomainChars
        /\ email[dot] = "."
        /\ Len(email) - dot >= 2
        /\ \A k \in (dot + 1)..Len(email) : email[k] \in Letters

\* the rest of the input after a tag opened by "<": [^>]* and an optional ">"
RECURSIVE afterTag(_)
afterTag(s) ==
    IF s = << >> THEN s
    ELSE IF Head(s) = ">" THEN Tail(s)
    ELSE afterTag(Tail(s))

\* input.replace(/<[^>]*>?/gm, '')
RECURSIVE stripTags(_)
stripTags(s) ==
    IF s = << >> THEN s
    ELSE IF Head(s) = "<" THEN stripTags(afterTag(Tail(s)))
    ELSE << Head(s) >> \o stripTags(Tail(s))

\* sanitizeInput without the trailing .trim()
sanitizeInputNoTrim(input) == stripTags(input)

\* input.replace(/<[^>]*>?/gm, '').trim()
sanitizeInput(input) == trim(stripTags(input))

----------------------------------------------------------------------------
(* fetchSession and createSession: the retry loop *)

\* A call of fetchSession or createSession.  Besides the arguments and the
\* locals of the function (attempts, the state of the AbortController) it
\* records what the call did: the requests sent, the fallback requests of the
\* current attempt, how the primary request of the current attempt ended, and
\* whether the responses so far follow the script "500, then 200 with a
\* sessionId".
IdleRequest ==
    [fn |-> "none", pc |-> "idle", sessionId |-> << >>,
     saasId |-> << >>, email |-> << >>, plan |-> << >>,
     sanitizedSaasId |-> << >>, sanitizedEmail |-> << >>, sanitizedPlan |-> << >>,
     maxRetries |-> 0, attempts |-> 0, aborted |-> FALSE,
     requests |-> 0, fallbacks |-> 0, primary |-> "none", script |-> "none",
     onlyTimeouts |-> TRUE, onlyNetErrs |-> TRUE,
     last |-> NoSessionOutcome, result |-> ReturnNull]

SessionReturn(rq, result) == [rq EXCEPT !.pc = "done", !.result = result]

\* a retry branch that gives up at once
SessionRetryNever(rq) == SessionReturn([rq EXCEPT !.attempts = @ + 1], ReturnNull)

\* attempts++; if (attempts < maxRetries) { backoff; continue }  and the
\* return null that follows otherwise
SessionRetry(rq) ==
    LET counted == [rq EXCEPT !.attempts = @ + 1] IN
    IF counted.attempts < counted.maxRetries
    THEN [counted EXCEPT !.pc = "backoff"]
    ELSE SessionReturn(counted, ReturnNull)

\* the catch of the outer try (fetchSession 215-234, createSession 481-500):
\* a timeout and any other error are logged differently and handled alike
SessionOuterCatch(rq) == SessionRetry(rq)

\* fetchSession lines 169-214: what follows once a response res is at hand
fetchSessionResponse(rq, res) ==
    IF res.status \notin 200..299
    THEN IF res.status = 404
         THEN SessionReturn(rq, ReturnNull)
         ELSE IF res.status >= 500 \/ res.status = 429
         THEN SessionRetry(rq)
         ELSE SessionReturn(rq, ReturnNull)
    ELSE IF res.json # "object"
    THEN SessionReturn(rq, ReturnNull)
    ELSE SessionReturn(rq, mapResponseToSessionType(SessionDocs[res.doc]))

\* a response handling that takes whatever a 2xx reply holds as the id
createSessionResponseLenient(rq, res) ==
    IF res.status \notin 200..299 THEN SessionRetry(rq) ELSE SessionReturn(rq, ReturnId(res.id))

\* createSession lines 450-479
createSessionResponse(rq, res) ==
    IF res.status \notin 200..299
    THEN IF res.json = "null"
         THEN SessionOuterCatch(rq)          \* errorData.message on null throws
         ELSE IF res.status >= 500 \/ res.status = 429
         THEN SessionRetry(rq)
         ELSE SessionReturn(rq, ReturnNull)
    ELSE IF res.json # "object" \/ res.id = ""
    THEN SessionReturn(rq, ReturnNull)
    ELSE SessionReturn(rq, ReturnId(res.id))

SessionResponse(rq, res) ==
    IF rq.fn = "fetchSession" THEN fetchSessionResponse(rq, res)
    ELSE createSessionResponse(rq, res)

\* how the responses so far compare with "500, then 200 with a sessionId"
scriptAfter(script, o) ==
    CASE script = "none" /\ o.kind = "resp" /\ o.status = 500 -> "500"
      [] script = "500" /\ o.kind = "resp" /\ o.status = 200
                        /\ o.json = "object" /\ o.id # "" -> "500-200"
      [] OTHER -> "off"

\* bookkeeping of one HTTP request and of what came back
SessionSent(rq, o) ==
    [rq EXCEPT !.requests = @ + 1,
               !.fallbacks = IF rq.pc = "primary" THEN 0 ELSE @ + 1,
               !.primary = IF rq.pc # "primary" THEN @
                           ELSE IF o.kind # "resp" THEN "failed"
                           ELSE IF o.status = 404 THEN "404" ELSE "answered",
               !.script = scriptAfter(@, o),
               !.onlyTimeouts = @ /\ o.kind = "timeout",
               !.onlyNetErrs = @ /\ o.kind = "neterr",
               !.last = o]

\* the catch of the inner try: the fallback fetch is issued next
SessionInnerCatch(rq, isAbort) == [rq EXCEPT !.pc = "fallbackCatch", !.aborted = isAbort]

\* one fetch() awaited inside the inner try: the primary request, or the
\* fallback request that follows a 404
SessionTryFetch(rq, o, isPrimary) ==
    LET sent == SessionSent(rq, o) IN
    CASE o.kind = "resp" ->
            IF isPrimary /\ o.status = 404
            THEN [sent EXCEPT !.pc = "fallback404"]
            ELSE SessionResponse(sent, o)
      [] o.kind = "neterr" -> SessionInnerCatch(sent, FALSE)
      [] OTHER -> SessionInnerCatch(sent, TRUE)

\* the fetch() of the inner catch; with the signal already aborted it
\* rejects at once and no request is sent
SessionCatchFetch(rq, o) ==
    IF rq.aborted
    THEN SessionOuterCatch(rq)
    ELSE LET sent == SessionSent(rq, o) IN
         IF o.kind = "resp" THEN SessionResponse(sent, o) ELSE SessionOuterCatch(sent)

\* the step of a running call that consumes fetch outcome o
SessionStep(rq, o) ==
    CASE rq.pc = "primary" -> SessionTryFetch(rq, o, TRUE)
      [] rq.pc = "fallback404" -> SessionTryFetch(rq, o, FALSE)
      [] rq.pc = "fallbackCatch" -> SessionCatchFetch(rq, o)
      [] OTHER -> rq

\* the backoff delay has elapsed: next iteration of the while loop
SessionBackoffElapsed(rq) == [rq EXCEPT !.pc = "primary", !.aborted = FALSE]

\* outcomes the pending fetch of rq can have
SessionPending(rq) ==
    IF rq.pc = "fallbackCatch" /\ rq.aborted THEN { SessionTimeout }
    ELSE IF rq.fn = "fetchSession" THEN FetchOutcomes ELSE CreateOutcomes

\* while (attempts < maxRetries) at the first iteration; return null after it
enterLoop(rq) ==
    IF 0 < rq.maxRetries THEN [rq EXCEPT !.pc = "primary"] ELSE SessionReturn(rq, ReturnNull)

\* fetchSession from its entry to its first await (lines 84-126)
fetchSession(sessionId, maxRetries) ==
    LET rq == [IdleRequest EXCEPT !.fn = "fetchSession", !.sessionId = sessionId,
                                  !.maxRetries = maxRetries]
    IN IF sessionId = << >>
       THEN SessionReturn(rq, ReturnNull)
       ELSE IF sanitizedSessionId(sessionId) # sessionId
       THEN SessionReturn(rq, ReturnNull)
       ELSE enterLoop(rq)

\* createSession from its entry to its first await (part_000 lines 350-394)
createSession(saasId, email, plan, maxRetries) ==
    LET rq == [IdleRequest EXCEPT !.fn = "createSession", !.saasId = saasId,
                                  !.email = email, !.plan = plan,
                                  !.maxRetries = maxRetries]
    IN IF saasId = << >>
       THEN SessionReturn(rq, ReturnNull)
       ELSE IF email = << >> \/ ~validateEmail(email)
       THEN SessionReturn(rq, ReturnNull)
       ELSE IF plan = << >>
       THEN SessionReturn(rq, ReturnNull)
       ELSE enterLoop([rq EXCEPT !.sanitizedSaasId = sanitizeInput(saasId),
                                 !.sanitizedEmail = sanitizeInput(email),
                                 !.sanitizedPlan = sanitizeInput(plan)])

\* the call rq run from its start to its return when every request it sends
\* ends the way given (a timeout or a transport failure)
RECURSIVE RunWith(_, _)
RunWith(rq, o) ==
    IF rq.pc = "done" THEN rq
    ELSE IF rq.pc = "backoff" THEN RunWith(SessionBackoffElapsed(rq), o)
    ELSE RunWith(SessionStep(rq, o), o)

Restart(rq) ==
    IF rq.fn = "fetchSession" THEN fetchSession(rq.sessionId, rq.maxRetries)
    ELSE createSession(rq.saasId, rq.email, rq.plan, rq.maxRetries)

----------------------------------------------------------------------------
(* The backoff delays of fetchSession, createSession and verifyPayment *)

\* values of Math.random(), in hundredths
Randoms == { 0, 1, 50, 99 }

\* the cap of the backoff of each function
ceiling(fn) == IF fn = "fetchSession" THEN 8000 ELSE 10000

\* the backoff without its cap
backoffTimeUncapped(fn, branch, attempts, random) ==
    1000 * 2^attempts
    + (random * (IF fn = "verifyPayment" /\ branch \in {"timeout", "error"}
                 THEN 100 ELSE 1000)) \div 100

\* Math.min(1000 * Math.pow(2, attempts) + Math.random() * spread, ceiling),
\* in ms: the spread is 1000, except in the two catch branches of
\* verifyPayment (AbortError, line 267, and any other error, line 303),
\* where it is 100
backoffTime(fn, branch, attempts, random) ==
    LET spread == IF fn = "verifyPayment" /\ branch \in {"timeout", "error"}
                  THEN 100 ELSE 1000
        time == 1000 * 2^attempts + (random * spread) \div 100
    IN IF time < ceiling(fn) THEN time ELSE ceiling(fn)

\* A call in which every attempt ends in the retry branch: attempts is the
\* local of that name and delays the backoff times waited so far.  The delays
\* of any call are a prefix of the delays of such a call.
NoBackoff == [fn |-> "none", maxRetries |-> 0, attempts |-> 0, delays |-> << >>]

----------------------------------------------------------------------------
(* Initial state and specifications *)

Init ==
    /\ verified_signatures = <<>>
    /\ pageText \in PageTexts
    /\ call = IdleCall
    /\ okBefore = {}
    /\ mounted = TRUE
    /\ paymentCompleted = "false"
    /\ loading = FALSE
    /\ shown = FALSE
    /\ att = [i \in Invocations |-> IdleAttempt]
    /\ req = IdleRequest
    /\ backoff = NoBackoff
    /\ san = [input |-> << >>, output |-> << >>, passes |-> 0]

\* history kept when a finished call is replaced by the next one
Remember(vp, seen) ==
    IF vp.pc = "done" /\ vp.result.success
    THEN seen \cup { <<vp.sessionId, vp.signature, vp.userPubKey>> }
    ELSE seen

CallVerifyPayment ==
    /\ call.pc \in {"idle", "done"}
    /\ \E args \in CallArgs, maxRetries \in 0..MaxRetriesArg :
          LET r == verifyPayment(verified_signatures, pageText, args[1], args[2],
                                 args[3], maxRetries)
          IN /\ call' = r.vp
             /\ verified_signatures' = r.store
    /\ okBefore' = Remember(call, okBefore)
    /\ UNCHANGED <<pageText, payVars, sessionVars>>

CallFetchSettles ==
    /\ call.pc \in {"primary", "fallback404", "fallbackCatch"}
    /\ \E o \in Pending(call) :
          LET r == VerifyStep(call, verified_signatures, pageText, o)
          IN /\ call' = r.vp
             /\ verified_signatures' = r.store
    /\ UNCHANGED <<pageText, okBefore, payVars, sessionVars>>

CallBackoffElapsed ==
    /\ call.pc = "backoff"
    /\ call' = BackoffElapsed(call)
    /\ UNCHANGED <<verified_signatures, pageText, okBefore, payVars, sessionVars>>

\* the page text changes (log lines rendered into the page)
PageTextChanges ==
    /\ \E p \in PageTexts : p # pageText /\ pageText' = p
    /\ UNCHANGED <<verified_signatures, verifyVars, payVars, sessionVars>>

NextVerify ==
    \/ CallVerifyPayment
    \/ CallFetchSettles
    \/ CallBackoffElapsed
    \/ PageTextChanges

SpecVerify == Init /\ [][NextVerify]_vars

\* an SDK user calls fetchSession
CallFetchSession ==
    /\ req.pc \in {"idle", "done"}
    /\ \E sessionId \in SessionIds, maxRetries \in 0..MaxRetriesArg :
          req' = fetchSession(sessionId, maxRetries)
    /\ UNCHANGED <<verified_signatures, pageText, verifyVars, payVars, backoff, san>>

\* an SDK user calls createSession
CallCreateSession ==
    /\ req.pc \in {"idle", "done"}
    /\ \E args \in CreateArgs, maxRetries \in 0..MaxRetriesArg :
          req' = createSession(args[1], args[2], args[3], maxRetries)
    /\ UNCHANGED <<verified_signatures, pageText, verifyVars, payVars, backoff, san>>

\* the pending fetch of the session call settles
SessionFetchSettles ==
    /\ req.pc \in {"primary", "fallback404", "fallbackCatch"}
    /\ \E o \in SessionPending(req) : req' = SessionStep(req, o)
    /\ UNCHANGED <<verified_signatures, pageText, verifyVars, payVars, backoff, san>>

\* the backoff delay of the session call has elapsed
SessionBackoff ==
    /\ req.pc = "backoff"
    /\ req' = SessionBackoffElapsed(req)
    /\ UNCHANGED <<verified_signatures, pageText, verifyVars, payVars, backoff, san>>

NextSession ==
    \/ CallFetchSession
    \/ CallCreateSession
    \/ SessionFetchSettles
    \/ SessionBackoff

SpecSession == Init /\ [][NextSession]_vars

\* The first handlePayment invocation of a mounted component, with every
\* token and every outcome of every awaited step.
Next ==
    \/ Click(1)
    \/ PriceSettles(1)
    \/ AccountInfoSettles(1)
    \/ BalanceSettles(1)
    \/ QuoteSettles(1)
    \/ SwapSettles(1)
    \/ SignSettles(1)
    \/ SendSettles(1)
    \/ BlockhashSettles(1)
    \/ ConfirmSettles(1)
    \/ VerifyFetchSettles(1)
    \/ VerifyBackoffElapsed(1)
    \/ PauseElapsed(1)
    \/ StatusSettles(1)
    \/ SafetyTimerFires(1)
    \/ ForcedRedirect(1)
    \/ SuccessRedirect(1)
    \/ Render
    \/ Unmount
    \/ PageTextChanges

Spec == Init /\ [][Next]_vars

\* The same with the timers of the page running: a timer that is set and not
\* cleared runs its callback.  Nothing is assumed of the awaited steps, which
\* may never settle.
SpecTimers ==
    /\ Init /\ [][Next]_vars
    /\ WF_vars(SafetyTimerFires(1))
    /\ WF_vars(ForcedRedirect(1))
    /\ WF_vars(SuccessRedirect(1))

\* Repeated clicks on a component whose selected token is SOL.
ClickSol(i) == ClickWith(i, {"SOL"})

\* a backend that answers every verification request at once, with 200 or
\* with 400: each verifyPayment call then returns after its first request
VerifyFetchAnswered(i) ==
    VerifyFetchSettlesWith(i, { o \in Responses : o.status \in {200, 400} /\ o.body = "nomsg" })

NextClicks ==
    \/ \E i \in Invocations :
          \/ ClickSol(i)
          \/ PriceSettles(i)
          \/ SendSettles(i)
          \/ BlockhashSettles(i)
          \/ ConfirmSettles(i)
          \/ VerifyFetchAnswered(i)
          \/ PauseElapsed(i)
          \/ StatusSettles(i)
          \/ SafetyTimerFires(i)
          \/ ForcedRedirect(i)
          \/ SuccessRedirect(i)
    \/ Render

SpecClicks == Init /\ [][NextClicks]_vars

\* a call starts
BackoffCall ==
    /\ \E fn \in {"fetchSession", "createSession", "verifyPayment"},
          maxRetries \in 1..MaxBackoffRetries :
          backoff' = [NoBackoff EXCEPT !.fn = fn, !.maxRetries = maxRetries]
    /\ UNCHANGED <<verified_signatures, pageText, verifyVars, payVars, req, san>>

\* an attempt ends in one of the retry branches: a 5xx or 429 answer, a
\* timeout (AbortError) or another error;
\* attempts++; if (attempts < maxRetries) { await the backoff time; continue }
BackoffAttemptFails ==
    /\ backoff.fn # "none" /\ backoff.attempts < backoff.maxRetries
    /\ \E branch \in {"status", "timeout", "error"}, random \in Randoms :
          LET attempts == backoff.attempts + 1 IN
          backoff' = [backoff EXCEPT
                         !.attempts = attempts,
                         !.delays = IF attempts < backoff.maxRetries
                                    THEN Append(@, backoffTime(backoff.fn, branch, attempts, random))
                                    ELSE @]
    /\ UNCHANGED <<verified_signatures, pageText, verifyVars, payVars, req, san>>

NextBackoff ==
    \/ BackoffCall
    \/ BackoffAttemptFails

SpecBackoff == Init /\ [][NextBackoff]_vars

----------------------------------------------------------------------------
(* sanitizeInput applied to bounded strings, and to its own output *)

\* the strings of at most MaxInputLen characters over tag delimiters, white
\* space and a letter
SanitizeInputs ==
    UNION { [1..n -> {"<", ">", " ", "\n", "a"}] : n \in 0..MaxInputLen }

\* const sanitized = sanitizeInput(input)
SanitizeCall ==
    /\ san.passes = 0
    /\ \E input \in SanitizeInputs :
          san' = [input |-> input, output |-> sanitizeInput(input), passes |-> 1]
    /\ UNCHANGED <<verified_signatures, pageText, verifyVars, payVars, req, backoff>>

\* sanitizeInput applied to the value it returned
SanitizeAgain ==
    /\ san.passes = 1
    /\ san' = [san EXCEPT !.output = sanitizeInput(@), !.passes = 2]
    /\ UNCHANGED <<verified_signatures, pageText, verifyVars, payVars, req, backoff>>

NextSanitize ==
    \/ SanitizeCall
    \/ SanitizeAgain

SpecSanitize == Init /\ [][NextSanitize]_vars

----------------------------------------------------------------------------
(* Properties of verifyPayment, checked under SpecVerify *)

CallArguments == <<call.sessionId, call.signature, call.userPubKey>>
Returned == call.pc = "done"
Stored == includes(verified_signatures, call.trimmedSignature)

\* C1: idempotence of verifyPayment: once a call has returned success, a later
\* call with the same arguments returns success and sends no HTTP request.
C1_Idempotent ==
    (Returned /\ CallArguments \in okBefore) => (call.result.success /\ call.requests = 0)

\* C2: every call that returns success:true leaves the trimmed signature in
\* the Verified-Signature Set, whichever path produced the success.
C2_SuccessIsStored ==
    (Returned /\ call.result.success) => Stored

\* the messages that say the payment may nonetheless have been processed
MayHaveBeenProcessed == { MsgExhausted, MsgMayHave }

\* C7: a call that returns success:false after at least one HTTP request says
\* that the payment may nonetheless have been processed.
C7_FailureAdmitsDoubt ==
    (Returned /\ ~call.result.success /\ call.requests >= 1)
        => call.result.message \in MayHaveBeenProcessed

\* C10: a call whose backend response is HTTP 409, from the primary or the
\* fallback endpoint and whatever its body, has returned success:true and the
\* trimmed signature is in the Verified-Signature Set.
C10_ConflictIsSuccess ==
    (call.last.kind = "resp" /\ call.last.status = 409)
        => (Returned /\ call.result.success /\ Stored)

\* a 409 with an unparseable body, received from the fallback endpoint after
\* the primary answered 404, has ended the call
C10_Witness ==
    /\ Returned /\ call.result.success /\ Stored
    /\ call.last.kind = "resp" /\ call.last.status = 409 /\ call.last.body = "bad"
    /\ call.attempts = 0 /\ call.requests = 2

\* the ways a call can end that rest on evidence: the signature was in the
\* set, a marker was on the page, or the backend answered 2xx or 409
EvidencePaths == { "cache", "marker", "2xx", "409" }

\* C27: verifyPayment returns success:true only on evidence; in particular a
\* call whose requests all timed out, with no marker on the page, does not
\* return success.
C27_SuccessOnEvidenceOnly ==
    (Returned /\ call.result.success) => call.path \in EvidencePaths

\* C33: a call that returns from the cache was preceded by a successful
\* call for the same session id, the same submitter address and the same
\* trimmed signature.
C33_CacheIsPerSession ==
    (Returned /\ call.path = "cache")
        => \E prior \in okBefore :
              /\ prior[1] = call.sessionId
              /\ prior[3] = call.userPubKey
              /\ trim(prior[2]) = call.trimmedSignature

\* C34: the Verified-Signature Set changes only in a step by which a call
\* returns success, so a call that returns success:false leaves it as it was;
\* a call with a missing argument returns with no request sent.
C34_FailureLeavesSetUnchanged ==
    [][ /\ verified_signatures' # verified_signatures
            => (call'.pc = "done" /\ call'.result.success)
        /\ (call' # call /\ call'.pc = "done" /\ ~call'.result.success)
            => verified_signatures' = verified_signatures
        /\ (/\ call.pc \in {"idle", "done"} /\ call' # call
            /\ call'.sessionId = "" \/ call'.signature = << >> \/ call'.userPubKey = "")
            => /\ call'.pc = "done" /\ ~call'.result.success /\ call'.requests = 0
               /\ verified_signatures' = verified_signatures ]_vars

\* a call for "a" failed after a request while the set held "b"
C34_Witness ==
    /\ Returned /\ ~call.result.success /\ call.requests >= 1
    /\ call.signature = << "a" >>
    /\ verified_signatures = << << "b" >> >>

\* C35: every signature in the Verified-Signature Set stays in it, and no
\* signature is in it twice.
C35_SetGrowsWithoutDuplicates ==
    /\ [](\A j, k \in 1..Len(verified_signatures) :
             verified_signatures[j] = verified_signatures[k] => j = k)
    /\ [][ \A k \in 1..Len(verified_signatures) :
             \E j \in 1..Len(verified_signatures') :
                 verified_signatures'[j] = verified_signatures[k] ]_vars

\* "a" and "b" are both in the set after "a" was submitted again, padded
C35_Witness ==
    /\ verified_signatures = << << "a" >>, << "b" >> >>
    /\ Returned /\ call.signature = << " ", "a", " " >> /\ call.result.success

\* the phrases among PageTexts that the scan before the first request looks for
SuccessPhrases == { "Transaction verification successful", "Signature already used" }

\* C30: a verifyPayment call made with all three arguments while a success
\* marker is on the page returns success at once, with no HTTP request sent
\* and with the trimmed signature in the Verified-Signature Set.
C30_MarkerShortCircuits ==
    [][ (/\ call.pc \in {"idle", "done"} /\ call' # call
         /\ call'.sessionId # "" /\ call'.signature # << >> /\ call'.userPubKey # ""
         /\ pageText \cap SuccessPhrases # {})
            => /\ call'.pc = "done" /\ call'.result.success /\ call'.requests = 0
               /\ includes(verified_signatures', trim(call'.signature)) ]_vars

\* a call with the signature " a " returned by the marker scan and stored "a"
C30_Witness ==
    /\ Returned /\ call.path = "marker" /\ call.requests = 0 /\ call.result.success
    /\ call.signature = << " ", "a", " " >>
    /\ includes(verified_signatures, << "a" >>)
    /\ call.maxRetries > 0

----------------------------------------------------------------------------
(* Properties of handlePayment, checked under Spec and SpecClicks *)

Ended(a) == a.pc = "ended"

\* no timer of the invocation is pending any more
Settled(a) == a.timer # "armed" /\ a.forced # "pending" /\ a.redirect # "pending"

\* C3: every invocation that ends, in success or in failure, leads to exactly
\* one onRedirect call: never two, and one once nothing is pending any more.
C3_ExactlyOneRedirect ==
    \A i \in Invocations :
        /\ RedirectCalls(att[i]) <= 1
        /\ (Ended(att[i]) /\ Settled(att[i])) => RedirectCalls(att[i]) = 1

\* C4: the 60 s safety timer is cancelled once the invocation has ended, in
\* success or in failure, and once the component has unmounted, so that its
\* callback cannot run afterwards.
C4_TimerCancelled ==
    \A i \in Invocations :
        (Ended(att[i]) \/ ~mounted) => att[i].timer # "armed"

\* C5: after an invocation has reached a failure outcome no onRedirect call
\* follows; after it has reached a success outcome no forced redirect and no
\* second onRedirect call follows.
C5_NoRedirectAfterEnd ==
    [][ \A i \in Invocations :
          /\ att[i].outcome = "failure"
                => RedirectCalls(att'[i]) = RedirectCalls(att[i])
          /\ att[i].outcome = "success"
                => (att'[i].forced = att[i].forced /\ RedirectCalls(att'[i]) <= 1) ]_vars

\* C6: in each asset path, when the ledger reported the transaction finalized
\* and every verification request of the invocation timed out, the invocation
\* has ended in success with its signature in the Verified-Signature Set.
C6_TimeoutsEndInStoredSuccess ==
    \A i \in Invocations :
        (Ended(att[i]) /\ att[i].confirm = "ok" /\ att[i].sent /\ ~att[i].nonTimeout)
            => (att[i].outcome = "success" /\ includes(verified_signatures, SigOf(i)))

\* C8: at most one handlePayment invocation of a component is outstanding.
C8_OneAtATime ==
    Cardinality({ i \in Invocations : Running(att[i]) }) <= 1

\* C9: in every asset path a confirmation that returned an error or threw is
\* fatal: verifyPayment is not called and the invocation does not succeed.
C9_FailedConfirmationIsFatal ==
    \A i \in Invocations :
        att[i].confirm \in {"err", "throw"}
            => (att[i].verifyCalls = 0 /\ att[i].outcome # "success")

\* C14: over a whole invocation, once verifyPayment has returned a terminal
\* client error (HTTP 400, or 404 after the fallback) no further verification
\* request is sent for the signature.
C14_ClientErrorNotRetried ==
    \A i \in Invocations : ~att[i].resent

\* C20: when the verification loop has ended without success and the ledger
\* reports the signature confirmed or finalized, the invocation ends in
\* success in every asset path, by the ledger branch (which sets the
\* payment-completed flag) and whatever the page text shows.
C20_LedgerOverridesBackend ==
    [][ \A i \in Invocations :
          (att[i].ledger = "none" /\ att'[i].ledger \in {"finalized", "confirmed"})
              => /\ Ended(att'[i]) /\ att'[i].outcome = "success"
                 /\ paymentCompleted' = "true" ]_vars

\* the swap path ended in success on a ledger report of "confirmed", after
\* three failed verifyPayment calls and with no marker on the page
C20_Witness ==
    /\ att[1].token = "SWAP" /\ att[1].verifyCalls = LoopMaxRetries
    /\ att[1].ledger = "confirmed" /\ att[1].outcome = "success"
    /\ pageText = {} /\ paymentCompleted = "true"

\* C21: on every path by which an invocation reaches success the flag
\* window.paymentCompleted is true when the success redirect is scheduled.
C21_SuccessSetsFlag ==
    [][ \A i \in Invocations :
          (att[i].outcome # "success" /\ att'[i].outcome = "success")
              => paymentCompleted' = "true" ]_vars

\* C22: the safety timer, once armed, is cleared by the end of the invocation
\* or runs its callback; a callback that runs while the flag is not set
\* schedules the forced redirect, and onRedirect is then invoked, whether or
\* not the awaited steps of the invocation ever settle.
C22_StalledAttemptIsRedirected ==
    /\ [][ (att[1].timer = "armed" /\ att'[1].timer = "fired" /\ paymentCompleted # "true")
              => att'[1].forced = "pending" ]_vars
    /\ (att[1].timer = "armed") ~> (att[1].timer \in {"cleared", "fired"})
    /\ (att[1].forced = "pending") ~> (att[1].forced = "done")

\* onRedirect was invoked while the price lookup of the invocation is still
\* pending
C22_Witness ==
    /\ att[1].pc = "price" /\ att[1].timer = "fired" /\ att[1].forced = "done"
    /\ paymentCompleted = "false"

\* C23: an invocation started without a public key or without a signing
\* capability has ended in failure at once: loading is not set, no timer is
\* armed, no transaction is dispatched and verifyPayment is not called.
C23_WalletCheckFailsFast ==
    \A i \in Invocations :
        (att[i].pc # "idle" /\ (~att[i].publicKey \/ ~att[i].signTransaction))
            => /\ Ended(att[i]) /\ att[i].outcome = "failure"
               /\ att[i].timer = "none" /\ att[i].forced = "none"
               /\ att[i].price = "none" /\ att[i].dispatches = 0 /\ att[i].verifyCalls = 0
               /\ ~loading

\* an invocation with a public key and no signing capability ended in failure
C23_Witness ==
    /\ att[1].publicKey /\ ~att[1].signTransaction
    /\ Ended(att[1]) /\ att[1].outcome = "failure" /\ att[1].timer = "none"

\* C24: in the swap path an absent token account or a balance of zero ends
\* the invocation in failure before the quote is requested; nothing is signed
\* or dispatched.
C24_SwapPrecheckIsFatal ==
    \A i \in Invocations :
        (att[i].token = "SWAP" /\ att[i].precheck \in {"absent", "zero"})
            => (Ended(att[i]) /\ att[i].outcome = "failure" /\ att[i].dispatches = 0)

\* the swap path ended in failure on a balance of zero
C24_Witness ==
    /\ att[1].token = "SWAP" /\ att[1].precheck = "zero"
    /\ Ended(att[1]) /\ att[1].outcome = "failure" /\ att[1].dispatches = 0
    /\ att[1].price = "ok"

\* C25: for every selected asset a price lookup that throws or gives a zero
\* price ends the invocation in failure with no transaction dispatched.
C25_PriceFailureIsFatal ==
    \A i \in Invocations :
        att[i].price \in {"bad", "throw"}
            => (Ended(att[i]) /\ att[i].outcome = "failure" /\ att[i].dispatches = 0)

\* C36: an invocation dispatches at most one transaction: the only dispatch
\* is the one made at the send step of the selected asset's path, and the
\* asset of a running invocation never changes.
C36_AtMostOneDispatch ==
    [][ \A i \in Invocations :
          /\ att'[i].dispatches <= 1
          /\ att'[i].dispatches # att[i].dispatches
                => (att[i].pc = "send" /\ att[i].dispatches = 0)
          /\ att[i].pc # "idle" => att'[i].token = att[i].token ]_vars

\* a USDC invocation ended in failure after its one dispatch, a failed
\* confirmation and three verification calls
C36_Witness ==
    /\ att[1].token = "USDC" /\ att[1].dispatches = 1 /\ att[1].confirm = "err"
    /\ att[1].verifyCalls = 3 /\ Ended(att[1]) /\ att[1].outcome = "failure"

\* C37: while an invocation has ended in success and its redirect has not run
\* yet, no other invocation starts.
C37_NoStartBeforeRedirect ==
    [][ \A i, j \in Invocations :
          (att[i].outcome = "success" /\ att[i].redirect = "pending" /\ att[j].pc = "idle")
              => att'[j].pc = "idle" ]_vars

\* C38: window.paymentCompleted is false at the start of every invocation.
C38_FlagFalseAtStart ==
    [][ \A i \in Invocations :
          (att[i].pc = "idle" /\ att'[i].pc # "idle") => paymentCompleted = "false" ]_vars

\* C28: the verification loop calls verifyPayment at most 3 times per
\* invocation; a call that is not the first follows a 2 s pause; after a call
\* returns the loop either ends in success, or pauses if fewer than 3 calls
\* were made, or leaves for the ledger check after the third.
C28_VerificationLoop ==
    [][ \A i \in Invocations :
          /\ att'[i].verifyCalls <= 3
          /\ att'[i].verifyCalls # att[i].verifyCalls
                => /\ att'[i].verifyCalls = att[i].verifyCalls + 1
                   /\ att[i].outcome # "success"
                   /\ att[i].verifyCalls >= 1 => att[i].pc = "pause"
          /\ (att[i].pc = "verify" /\ att'[i].pc # "verify")
                => \/ att'[i].outcome = "success" /\ Ended(att'[i])
                   \/ att'[i].pc = "pause" /\ att[i].verifyCalls < 3
                   \/ att'[i].pc = "status" /\ att[i].verifyCalls = 3 ]_vars

\* the third call of an invocation is pending, after two pauses
C28_Witness ==
    att[1].pc = "verify" /\ att[1].verifyCalls = 3 /\ att[1].retryCount = 2

----------------------------------------------------------------------------
(* Properties of fetchSession and createSession, checked under SpecSession *)

Rejected(rq) == rq.pc = "done" /\ rq.result.kind = "null" /\ rq.requests = 0

\* C11: fetchSession called with an empty session id, or with one that holds
\* a character outside [A-Za-z0-9_-], returns null and sends no HTTP request.
C11_BadSessionIdRejected ==
    (/\ req.fn = "fetchSession"
     /\ \/ req.sessionId = << >>
        \/ \E k \in 1..Len(req.sessionId) : req.sessionId[k] \notin IdChars)
        => Rejected(req)

\* the id "a/b" was rejected
C11_Witness ==
    /\ req.fn = "fetchSession" /\ req.sessionId = << "a", "/", "b" >>
    /\ req.maxRetries > 0 /\ Rejected(req)

\* the emails among Emails that are addresses
WellFormedEmails == { GoodEmail, << "A", "+", "1", "@", "x", "-", "a", ".", "c", "o" >> }

\* C12: createSession called with an email that is not an address, or with an
\* empty merchant id, email or plan, returns null and sends no HTTP request.
C12_InvalidCreateRejected ==
    (/\ req.fn = "createSession"
     /\ \/ req.saasId = << >>
        \/ req.plan = << >>
        \/ req.email \notin WellFormedEmails)
        => Rejected(req)

\* the email "not-an-email" was rejected
C12_Witness ==
    /\ req.fn = "createSession" /\ req.maxRetries > 0 /\ Rejected(req)
    /\ req.saasId = M1 /\ req.plan = Pro
    /\ req.email = << "n", "o", "t", "-", "a", "n", "-", "e", "m", "a", "i", "l" >>

\* the last response is a 400, or a 404 that is not about to be followed by
\* the fallback request
TerminalClientError(last, pc) ==
    /\ last.kind = "resp"
    /\ last.status = 400 \/ (last.status = 404 /\ pc # "fallback404")

\* C13: in fetchSession, createSession and verifyPayment a 400 response, or a
\* 404 response that remains after the fallback, has ended the call with
\* failure: no request and no backoff follows it.
C13_ClientErrorEndsCall ==
    /\ (req.fn # "none" /\ TerminalClientError(req.last, req.pc))
          => (req.pc = "done" /\ req.result.kind = "null")
    /\ TerminalClientError(call.last, call.pc)
          => (Returned /\ ~call.result.success)

\* C15: a call of fetchSession, createSession or verifyPayment makes at most
\* maxRetries attempts and sends at most 2 * maxRetries HTTP requests.
C15_BoundedRequests ==
    /\ req.attempts <= req.maxRetries /\ req.requests <= 2 * req.maxRetries
    /\ call.attempts <= call.maxRetries /\ call.requests <= 2 * call.maxRetries

\* the backend answered (or was to answer) 500 to the first request and 200
\* with a sessionId to the second, and the call has returned
ScriptPlayed == req.fn = "createSession" /\ req.pc = "done" /\ req.script \in {"500", "500-200"}

GotSessionId ==
    /\ req.result.kind = "id" /\ req.result.id = req.last.id
    /\ req.requests <= req.maxRetries

\* C16 as stated: for every maxRetries >= 1 a createSession call served by a
\* 500-then-200 backend returns the session id within maxRetries requests.
C16_RetryThenSuccessAnyRetries ==
    (ScriptPlayed /\ req.maxRetries >= 1) => GotSessionId

\* C16, amended: the same for every maxRetries >= 2; with maxRetries = 1 the
\* first 500 already exhausts the attempts.
C16_RetryThenSuccess ==
    (ScriptPlayed /\ req.maxRetries >= 2) => GotSessionId

\* a call with maxRetries = 2 returned the id from its second request
C16_Witness ==
    /\ ScriptPlayed /\ req.script = "500-200" /\ req.maxRetries = 2
    /\ req.requests = 2 /\ req.attempts = 1 /\ req.result.kind = "id"

\* the outcome of the current attempt is decided
Decided(c) == c.pc \in {"backoff", "done"} /\ c.requests >= 1

FallbackRule(c) ==
    /\ c.fallbacks <= 1
    /\ Decided(c) => c.fallbacks = (IF c.primary \in {"404", "failed"} THEN 1 ELSE 0)

\* C17: in each attempt the fallback URL is requested exactly once when the
\* primary URL answered 404 or the primary request failed, and not at all
\* otherwise.
C17_OneFallbackRequest ==
    /\ req.fn # "none" => FallbackRule(req)
    /\ FallbackRule(call)

\* C18: the value fetchSession or createSession returns when every request
\* failed with a transport error differs from the value the same call returns
\* when every request times out.
C18_TimeoutIsDistinct ==
    (req.pc = "done" /\ req.requests >= 1 /\ req.onlyNetErrs)
        => req.result # RunWith(Restart(req), SessionTimeout).result

\* a member of the response under one of the keys of field f
Carries(doc, f) == \E k \in Range(Aliases[f]) : doc[k].t \notin {"undefined", "null"}

\* C19: fetchSession returns a session only from a response that carries all
\* six mandatory fields under some alias, and a returned session has all six
\* set and a price above zero.
C19_FailClosed ==
    (req.fn = "fetchSession" /\ req.pc = "done" /\ req.result.kind = "session")
        => /\ req.last.kind = "resp" /\ req.last.status = 200
           /\ \A f \in requiredFields :
                 /\ Carries(SessionDocs[req.last.doc], f)
                 /\ req.result.session[f].t \notin {"undefined", "null"}
           /\ req.result.session["price"].t = "number"
           /\ req.result.session["price"].n > 0

\* a session was returned from a response that uses alias keys only
C19_Witness ==
    /\ req.fn = "fetchSession" /\ req.pc = "done" /\ req.result.kind = "session"
    /\ req.last.doc = "aliased"
    /\ req.result.session["_id"] = Str("abc123")
    /\ req.result.session["price"] = Num(10)
    /\ req.result.session["saasName"] = Str("Merchant")

\* C26: createSession returns a session id only from a 2xx reply whose body
\* holds a non-empty sessionId, and a 2xx reply without one, or with a body
\* that does not parse, ends the call with null at once.
C26_SessionIdRequired ==
    req.fn = "createSession" =>
        /\ (req.pc = "done" /\ req.result.kind = "id")
              => /\ req.last.kind = "resp" /\ req.last.status \in 200..299
                 /\ req.last.json = "object" /\ req.last.id # ""
                 /\ req.result.id = req.last.id
        /\ (/\ req.last.kind = "resp" /\ req.last.status \in 200..299
            /\ req.last.json # "object" \/ req.last.id = "")
              => (req.pc = "done" /\ req.result.kind = "null")

\* a 200 reply without sessionId ended a call that had attempts left
C26_Witness ==
    /\ req.fn = "createSession" /\ req.pc = "done" /\ req.result.kind = "null"
    /\ req.last.kind = "resp" /\ req.last.status = 200
    /\ req.last.json = "object" /\ req.last.id = ""
    /\ req.attempts = 0 /\ req.maxRetries = 2

\* C31: every request createSession sends carries a non-empty sanitized
\* merchant id, email and plan.
C31_NoEmptyFieldSent ==
    (req.fn = "createSession" /\ req.requests > 0)
        => /\ req.sanitizedSaasId # << >>
           /\ req.sanitizedEmail # << >>
           /\ req.sanitizedPlan # << >>

\* the characters String.prototype.trim removes that the inputs use
WhiteSpace == { " ", "\t", "\n" }

\* C32: a sanitized value holds no '<' and neither starts nor ends with white
\* space, and sanitizing it again gives the same value.
C32_SanitizedAndIdempotent ==
    /\ [](san.passes >= 1 =>
            /\ \A k \in 1..Len(san.output) : san.output[k] # "<"
            /\ san.output # << >> =>
                  /\ san.output[1] \notin WhiteSpace
                  /\ san.output[Len(san.output)] \notin WhiteSpace)
    /\ [][ (san.passes = 1 /\ san'.passes = 2) => san'.output = san.output ]_vars

\* " <>a" was sanitized to "a", and "a" again to "a"
C32_Witness ==
    /\ san.passes = 2
    /\ san.input = << " ", "<", ">", "a" >>
    /\ san.output = << "a" >>

----------------------------------------------------------------------------
(* Properties of the backoff delays, checked under SpecBackoff *)

\* the ceilings: 8000 ms for fetchSession, 10000 ms for the other two
StatedCeiling == IF backoff.fn = "fetchSession" THEN 8000 ELSE 10000

\* C29 as stated: for every maxRetries and every jitter the successive delays
\* of a call are strictly increasing and none exceeds the ceiling.
C29_StrictlyIncreasing ==
    \A k \in 1..Len(backoff.delays) :
        /\ backoff.delays[k] <= StatedCeiling
        /\ k > 1 => backoff.delays[k - 1] < backoff.delays[k]

\* C29, amended: none exceeds the ceiling, and the successive delays are
\* strictly increasing until the ceiling is reached and equal to it afterwards.
C29_IncreasingUpToCeiling ==
    \A k \in 1..Len(backoff.delays) :
        /\ backoff.delays[k] <= StatedCeiling
        /\ k > 1 => \/ backoff.delays[k - 1] < backoff.delays[k]
                    \/ backoff.delays[k - 1] = StatedCeiling /\ backoff.delays[k] = StatedCeiling

\* a fetchSession call with maxRetries = 5 waited 2990, 4000, 8000 and 8000 ms
C29_Witness ==
    /\ backoff.fn = "fetchSession" /\ backoff.maxRetries = 5
    /\ backoff.delays = << 2990, 4000, 8000, 8000 >>

====
